---- MODULE Spec2Model ----
(***************************************************************************)
(* A model of the runtime behaviour of the lesson code on tagged unions    *)
(* (getEventTeaser*, filterByEvent*, groupEvents) and of the user factory  *)
(* (createUser, createUser2).                                              *)
(*                                                                         *)
(* JavaScript values that end up in a template literal are tagged records  *)
(* [t |-> "string" | "number" | "undefined" | "object", v |-> ...]; a      *)
(* JavaScript string is a TLA+ string, so concatenation is \o and          *)
(* "contains" is a search for a substring.  An event is a record whose     *)
(* DOMAIN is the set of properties the object has.  Of TechEventBaseNew    *)
(* only title is kept: description, date, capacity, rsvp and talks are     *)
(* read by none of the functions modelled here.                            *)
(*                                                                         *)
(* A parameter's type annotation is modelled as the set of values of that  *)
(* type; a call records in typeOk whether its arguments are in those sets  *)
(* (what the compiler decides at the call site) next to what the call does *)
(* when it runs.                                                           *)
(***************************************************************************)
EXTENDS FiniteSets, Integers, Sequences, TLC

VARIABLES eventList, ret, userId, users,
          userEventList, filtered,      \* lesson 26: the user's events, the last filter call
          videos, guard, load,          \* lessons 29-31: the format object, the last guard call, the load in flight
          defaults, merged,             \* lesson 33: the defaults object, the last merge call
          container, dom                \* lesson 35: the Container instance, the elements

eventVars == <<eventList, ret>>
factoryVars == <<userId, users>>
userEventVars == <<userEventList, filtered>>
videoVars == <<videos, guard, load>>
prefVars == <<defaults, merged>>
containerVars == <<container, dom>>

vars == <<eventList, ret, userId, users, userEventList, filtered,
          videos, guard, load, defaults, merged, container, dom>>

(* The value of a variable of a lesson that takes no part in a             *)
(* specification.                                                          *)
NotInUse == "not in use"
IdleUserEvents == userEventList = NotInUse /\ filtered = NotInUse
IdleVideo == videos = NotInUse /\ guard = NotInUse /\ load = NotInUse
IdlePrefs == defaults = NotInUse /\ merged = NotInUse
IdleContainer == container = NotInUse /\ dom = NotInUse

(* Bounds of the model. *)
MaxEvents == 2
MaxCalls == 3
MaxUserEvents == 2
MaxChildren == 2

-----------------------------------------------------------------------------
(* JavaScript values and their conversion to a string.                     *)

Str(s) == [t |-> "string", v |-> s]
Num(n) == [t |-> "number", v |-> n]
Undefined == [t |-> "undefined", v |-> 0]

(* obj.prop: the property's value, undefined when the object has none. *)
Get(obj, prop) == IF prop \in DOMAIN obj THEN obj[prop] ELSE Undefined

Digit(d) == SubSeq("0123456789", d + 1, d + 1)

RECURSIVE NumberToString(_)
NumberToString(n) ==
  IF n < 0 THEN "-" \o NumberToString(0 - n)
  ELSE IF n < 10 THEN Digit(n)
  ELSE NumberToString(n \div 10) \o Digit(n % 10)

(* ${x} in a template literal. *)
TemplateString(x) ==
  CASE x.t = "string" -> x.v
    [] x.t = "number" -> NumberToString(x.v)
    [] x.t = "undefined" -> "undefined"
    [] OTHER -> "[object Object]"

Contains(s, sub) ==
  \E i \in 1..(Len(s) - Len(sub) + 1) : SubSeq(s, i, i + Len(sub) - 1) = sub

StartsWith(s, pre) == Len(pre) <= Len(s) /\ SubSeq(s, 1, Len(pre)) = pre

-----------------------------------------------------------------------------
(* The variant types.  fields: property -> type of its value; optional:    *)
(* the properties declared with "?".                                       *)

ConferenceNew ==
  [kind |-> "Conference",
   fields |-> [title |-> "string", location |-> "string", price |-> "number"],
   optional |-> {}]

MeetupNew ==
  [kind |-> "Meetup",
   fields |-> [title |-> "string", location |-> "string", price |-> "string"],
   optional |-> {}]

WebinarNew ==
  [kind |-> "Webinar",
   fields |-> [title |-> "string", url |-> "string", price |-> "number"],
   optional |-> {"price"}]

(* Hackathon declared with a kind another variant already has. *)
HackathonKindMeetup ==
  [kind |-> "Meetup",
   fields |-> [title |-> "string", location |-> "string", price |-> "number"],
   optional |-> {"price"}]

Hackathon ==
  [kind |-> "Hackathon",
   fields |-> [title |-> "string", location |-> "string", price |-> "number"],
   optional |-> {"price"}]

TechEventNew == {WebinarNew, ConferenceNew, MeetupNew}

(* The union without the variant added last. *)
TechEventNewerNoHackathon == {ConferenceNew, WebinarNew, MeetupNew}

TechEventNewer == {ConferenceNew, WebinarNew, Hackathon, MeetupNew}

EventKind == {"Conference", "Webinar", "Meetup"}

(* The lookup type replaced by the hand-written list it was meant to end. *)
EventKind2HandWritten == {"Conference", "Webinar", "Meetup"}

(* TechEventNewer["kind"] *)
EventKind2 == {V.kind : V \in TechEventNewer}

(* The value e has the variant type V. *)
HasVariant(e, V) ==
  /\ e.kind = V.kind
  /\ \A f \in DOMAIN V.fields :
       IF f \in DOMAIN e THEN e[f].t = V.fields[f] ELSE f \in V.optional

(* The value e has the union type T. *)
HasType(e, T) == \E V \in T : HasVariant(e, V)

-----------------------------------------------------------------------------
(* Event literals.  script19 is the example object of the source; its      *)
(* title is the value of the global variable string.                       *)

script19 ==
  [kind |-> "Conference", title |-> Str("Hello world"),
   price |-> Num(129), location |-> Str("Amsterdam")]

EventPool ==
  { script19,
    [kind |-> "Conference", title |-> Str("Hello world"),
     price |-> Num(129), location |-> Str("Linz")],
    [kind |-> "Conference", title |-> Str("JS"),
     price |-> Num(0), location |-> Str("Amsterdam")],
    [kind |-> "Webinar", title |-> Str("TS"), url |-> Str("https://x")],
    [kind |-> "Webinar", title |-> Str("JS"), url |-> Str("https://y"),
     price |-> Num(45)],
    [kind |-> "Meetup", title |-> Str("JS"),
     price |-> Str("free"), location |-> Str("Linz")],
    [kind |-> "Hackathon", title |-> Str("TS"), location |-> Str("Vienna")],
    [kind |-> "Hackathon", title |-> Str("JS"), location |-> Str("Linz"),
     price |-> Num(7)],
    [kind |-> "u", title |-> Str("TS")],
    [kind |-> "Concert", title |-> Str("JS"), location |-> Str("Vienna")] }

(* The kinds a caller may pass: those of the pool's events. *)
KindPool == {e.kind : e \in EventPool}

(* All lists of at most n events of the pool. *)
EventLists(n) == UNION {[1..k -> EventPool] : k \in 0..n}

-----------------------------------------------------------------------------
(* Outcomes of a call. *)

Returned(value) == [outcome |-> "returned", value |-> value]
Threw(message) == [outcome |-> "threw", value |-> message]

WebinarTeaser(event) ==
  TemplateString(Get(event, "title")) \o " Webinar. "
    \o "Available online at " \o TemplateString(Get(event, "url"))

(* The Conference branch reading the location instead of the price. *)
ConferenceTeaserLocation(event) ==
  TemplateString(Get(event, "title")) \o " Conference. "
    \o "Hosted at " \o TemplateString(Get(event, "location"))

ConferenceTeaser(event) ==
  TemplateString(Get(event, "title")) \o " Conference. "
    \o "Priced at " \o TemplateString(Get(event, "price")) \o " USD"

MeetupTeaser(event) ==
  TemplateString(Get(event, "title")) \o " Meetup. "
    \o "Hosted at " \o TemplateString(Get(event, "location"))

(* A copied branch whose text was not changed. *)
HackathonTeaserCopied(event) ==
  TemplateString(Get(event, "title")) \o " Meetup. "
    \o "Hosted at " \o TemplateString(Get(event, "location"))

HackathonTeaser(event) ==
  TemplateString(Get(event, "title")) \o " Hackathon. "
    \o "Hosted at " \o TemplateString(Get(event, "location"))

getEventTeaser(event) ==
  CASE event.kind = "Webinar" -> Returned(WebinarTeaser(event))
    [] event.kind = "Conference" -> Returned(ConferenceTeaser(event))
    [] event.kind = "Meetup" -> Returned(MeetupTeaser(event))
    [] event.kind = "u" -> Returned("")
    [] OTHER -> Threw("Whoops - bad move")

getEventTeaser2(event) ==
  CASE event.kind = "Webinar" -> Returned(WebinarTeaser(event))
    [] event.kind = "Conference" -> Returned(ConferenceTeaser(event))
    [] event.kind = "Meetup" -> Returned(MeetupTeaser(event))
    [] event.kind = "u" -> Returned("")
    [] OTHER -> Threw("Whoops - bad move")

(* The dispatcher as it would be with the Hackathon case forgotten. *)
getEventTeaser3NoHackathon(event) ==
  CASE event.kind = "Webinar" -> Returned(WebinarTeaser(event))
    [] event.kind = "Conference" -> Returned(ConferenceTeaser(event))
    [] event.kind = "Meetup" -> Returned(MeetupTeaser(event))
    [] event.kind = "u" -> Returned("")
    [] OTHER -> Threw("Whoops - bad move")

(* token is an object here, so ${token} is "[object Object]". *)
neverError(message, token) ==
  message \o ". " \o TemplateString([t |-> "object", v |-> token])
    \o " should not exist"

getEventTeaser3(event) ==
  CASE event.kind = "Webinar" -> Returned(WebinarTeaser(event))
    [] event.kind = "Conference" -> Returned(ConferenceTeaser(event))
    [] event.kind = "Meetup" -> Returned(MeetupTeaser(event))
    [] event.kind = "Hackathon" -> Returned(HackathonTeaser(event))
    [] event.kind = "u" -> Returned("")
    [] OTHER -> Threw(neverError("Whoops - bad move", event))

-----------------------------------------------------------------------------
(* Lesson 25: filters and grouping.                                        *)

(* ToBoolean of a value a callback returns. *)
Truthy(x) ==
  CASE x.t = "boolean" -> x.v
    [] x.t = "undefined" -> FALSE
    [] x.t = "number" -> x.v # 0
    [] x.t = "string" -> x.v # ""
    [] OTHER -> TRUE

(* The arrow function's body is a block holding the expression statement   *)
(* event.kind === kind and no return: the call evaluates the comparison    *)
(* and returns undefined.                                                  *)
filterByEventCallback(event, kind) ==
  LET compared == [t |-> "boolean", v |-> (event.kind = kind)]
  IN  Undefined

filterByEvent(list, kind) ==
  Returned(SelectSeq(list, LAMBDA event : Truthy(filterByEventCallback(event, kind))))

filterByEvent2(list, kind) ==
  Returned(SelectSeq(list, LAMBDA event : Truthy(filterByEventCallback(event, kind))))

(* The literal with one key forgotten. *)
EmptyGroupsNoHackathon ==
  [Conference |-> <<>>, Meetup |-> <<>>, Webinar |-> <<>>]

(* The object literal groupEvents starts from. *)
EmptyGroups ==
  [Conference |-> <<>>, Hackathon |-> <<>>, Meetup |-> <<>>, Webinar |-> <<>>]

(* The loop adding each event at the front of its group (unshift). *)
RECURSIVE forEachUnshift(_, _, _)
forEachUnshift(events, i, grouped) ==
  IF i > Len(events) THEN Returned(grouped)
  ELSE IF events[i].kind \notin DOMAIN grouped
       THEN Threw("TypeError: Cannot read properties of undefined (reading 'unshift')")
       ELSE forEachUnshift(events, i + 1,
              [grouped EXCEPT ![events[i].kind] = <<events[i]>> \o @])

(* events.forEach over events[i..]: grouped[event.kind].push(event); when  *)
(* grouped has no such key, grouped[event.kind] is undefined and .push     *)
(* throws a TypeError, which ends the loop and the call.                   *)
RECURSIVE forEachPush(_, _, _)
forEachPush(events, i, grouped) ==
  IF i > Len(events) THEN Returned(grouped)
  ELSE IF events[i].kind \notin DOMAIN grouped
       THEN Threw("TypeError: Cannot read properties of undefined (reading 'push')")
       ELSE forEachPush(events, i + 1,
              [grouped EXCEPT ![events[i].kind] = Append(@, events[i])])

groupEvents(events) == forEachPush(events, 1, EmptyGroups)

(* Parameter types: what the compiler accepts at a call site. *)
IsListOf(list, T) == \A i \in 1..Len(list) : HasType(list[i], T)

-----------------------------------------------------------------------------
(* Lesson 41: the user factory.                                            *)

NamePool == {"Stefan", "Mitchell"}
RolePool == {"admin", "maintenance", "shipping"}
TimePool == {1000, 2000}

(* userId++ : the old value is the id, the variable becomes old + 1. *)
createUser(id, names, roles) == [id |-> id, names |-> names, roles |-> roles]

createUser2(id, name, role, isActive, now) ==
  [id |-> id, name |-> name, role |-> role, isActive |-> isActive,
   createdAt |-> now]

(* The counter left as it is. *)
NoIncrement(n) == n

PostIncrement(n) == n + 1

-----------------------------------------------------------------------------
(* The state machine.  eventList is the declared list the calls are made   *)
(* on; ret is the last call and what it did; userId is the module's        *)
(* counter and users the log of the factory's calls with their results.    *)

NoEvent == [kind |-> "none"]
NoCall == [fn |-> "none", event |-> NoEvent, kind |-> "", typeOk |-> TRUE,
           res |-> Returned("")]

IdleEvents == eventList = <<>> /\ ret = NoCall
IdleFactory == userId = 0 /\ users = <<>>

Init ==
  /\ eventList \in EventLists(MaxEvents)
  /\ ret = NoCall
  /\ userId = 0
  /\ users = <<>>
  /\ IdleUserEvents /\ IdleVideo /\ IdlePrefs /\ IdleContainer

CallGetEventTeaser(event) ==
  /\ ret' = [fn |-> "getEventTeaser", event |-> event, kind |-> "",
             typeOk |-> HasType(event, TechEventNew),
             res |-> getEventTeaser(event)]
  /\ UNCHANGED <<eventList, factoryVars, userEventVars, videoVars, prefVars, containerVars>>

CallGetEventTeaser2(event) ==
  /\ ret' = [fn |-> "getEventTeaser2", event |-> event, kind |-> "",
             typeOk |-> HasType(event, TechEventNew),
             res |-> getEventTeaser2(event)]
  /\ UNCHANGED <<eventList, factoryVars, userEventVars, videoVars, prefVars, containerVars>>

CallGetEventTeaser3(event) ==
  /\ ret' = [fn |-> "getEventTeaser3", event |-> event, kind |-> "",
             typeOk |-> HasType(event, TechEventNewer),
             res |-> getEventTeaser3(event)]
  /\ UNCHANGED <<eventList, factoryVars, userEventVars, videoVars, prefVars, containerVars>>

CallFilterByEvent(kind) ==
  /\ ret' = [fn |-> "filterByEvent", event |-> NoEvent, kind |-> kind,
             typeOk |-> IsListOf(eventList, TechEventNew) /\ kind \in EventKind,
             res |-> filterByEvent(eventList, kind)]
  /\ UNCHANGED <<eventList, factoryVars, userEventVars, videoVars, prefVars, containerVars>>

CallFilterByEvent2(kind) ==
  /\ ret' = [fn |-> "filterByEvent2", event |-> NoEvent, kind |-> kind,
             typeOk |-> IsListOf(eventList, TechEventNew) /\ kind \in EventKind2,
             res |-> filterByEvent2(eventList, kind)]
  /\ UNCHANGED <<eventList, factoryVars, userEventVars, videoVars, prefVars, containerVars>>

CallGroupEvents ==
  /\ ret' = [fn |-> "groupEvents", event |-> NoEvent, kind |-> "",
             typeOk |-> IsListOf(eventList, TechEventNewer),
             res |-> groupEvents(eventList)]
  /\ UNCHANGED <<eventList, factoryVars, userEventVars, videoVars, prefVars, containerVars>>

Next ==
  \/ \E event \in EventPool : CallGetEventTeaser(event)
  \/ \E event \in EventPool : CallGetEventTeaser2(event)
  \/ \E event \in EventPool : CallGetEventTeaser3(event)
  \/ \E kind \in KindPool : CallFilterByEvent(kind)
  \/ \E kind \in KindPool : CallFilterByEvent2(kind)
  \/ CallGroupEvents

Spec == Init /\ [][Next]_vars

(* The user factory on its own: the event state stays as constructed. *)
InitUsers ==
  /\ eventList = <<>>
  /\ ret = NoCall
  /\ userId = 0
  /\ users = <<>>
  /\ IdleUserEvents /\ IdleVideo /\ IdlePrefs /\ IdleContainer

CallCreateUser(names, roles) ==
  /\ Len(users) < MaxCalls
  /\ users' = Append(users, [fn |-> "createUser", args |-> <<names, roles>>,
                             value |-> createUser(userId, names, roles)])
  /\ userId' = PostIncrement(userId)
  /\ UNCHANGED <<eventVars, userEventVars, videoVars, prefVars, containerVars>>

CallCreateUser2(name, role, isActive, now) ==
  /\ Len(users) < MaxCalls
  /\ users' = Append(users, [fn |-> "createUser2", args |-> <<name, role, isActive>>,
                             value |-> createUser2(userId, name, role, isActive, now)])
  /\ userId' = PostIncrement(userId)
  /\ UNCHANGED <<eventVars, userEventVars, videoVars, prefVars, containerVars>>

NextUsers ==
  \/ \E names \in NamePool, roles \in RolePool : CallCreateUser(names, roles)
  \/ \E name \in NamePool, role \in RolePool, isActive \in BOOLEAN, now \in TimePool :
       CallCreateUser2(name, role, isActive, now)

SpecUsers == InitUsers /\ [][NextUsers]_vars

-----------------------------------------------------------------------------
(* Properties of the dispatchers.                                          *)

TeaserFns == {"getEventTeaser", "getEventTeaser2", "getEventTeaser3"}

(* What a teaser is expected to be made of, per kind: the property read    *)
(* and the text around its value.                                          *)
TeaserField ==
  [Webinar |-> "url", Conference |-> "price",
   Meetup |-> "location", Hackathon |-> "location"]
TeaserLead ==
  [Webinar |-> "Available online at ", Conference |-> "Priced at ",
   Meetup |-> "Hosted at ", Hackathon |-> "Hosted at "]
TeaserTail ==
  [Webinar |-> "", Conference |-> " USD", Meetup |-> "", Hackathon |-> ""]

(* C1: for every event of type TechEventNewer, getEventTeaser3 returns the *)
(* teaser of the event's own kind: the title, then the kind's name, then   *)
(* the text of that kind's branch around the value of the one property the *)
(* branch reads, a property the event has (url for Webinar, price for      *)
(* Conference, location for Meetup and Hackathon); a Webinar with url      *)
(* "https://x" gives a string containing "https://x".                      *)
C1_TeaserOfOwnKind ==
  (ret.fn = "getEventTeaser3" /\ HasType(ret.event, TechEventNewer)) =>
    LET e == ret.event
        k == e.kind
    IN  /\ ret.res.outcome = "returned"
        /\ TeaserField[k] \in DOMAIN e
        /\ ret.res.value =
             e.title.v \o " " \o k \o ". " \o TeaserLead[k]
               \o TemplateString(e[TeaserField[k]]) \o TeaserTail[k]
        /\ \A other \in EventKind2 \ {k} : ~Contains(ret.res.value, " " \o other \o ". ")
        /\ (k = "Webinar" /\ e.url = Str("https://x"))
             => Contains(ret.res.value, "https://x")

C1_Witness ==
  /\ ret.fn = "getEventTeaser3"
  /\ ret.event.kind = "Webinar"
  /\ ret.event.url = Str("https://x")
  /\ ret.res.outcome = "returned"
  /\ Contains(ret.res.value, "https://x")

(* C2 as stated: the teaser of a Conference contains both the event's      *)
(* price and its location ("129" and "Amsterdam" for script19).            *)
C2_PriceAndLocation ==
  (/\ ret.fn \in {"getEventTeaser", "getEventTeaser3"}
   /\ HasVariant(ret.event, ConferenceNew)) =>
    /\ ret.res.outcome = "returned"
    /\ Contains(ret.res.value, TemplateString(ret.event.price))
    /\ Contains(ret.res.value, ret.event.location.v)

(* C2 amended: the teaser of a Conference contains the event's price, and  *)
(* it is the same for every location the event could have: it is not built *)
(* from the location.  For script19 it contains "129" and does not contain *)
(* "Amsterdam".                                                            *)
C2_PriceNotLocation ==
  (/\ ret.fn \in {"getEventTeaser", "getEventTeaser3"}
   /\ HasVariant(ret.event, ConferenceNew)) =>
    /\ ret.res.outcome = "returned"
    /\ Contains(ret.res.value, TemplateString(ret.event.price))
    /\ \A e \in EventPool :
         (HasVariant(e, ConferenceNew) /\ e.title = ret.event.title
            /\ e.price = ret.event.price)
           => \A call \in {getEventTeaser(e), getEventTeaser3(e)} :
                call = ret.res
    /\ ret.event = script19 =>
         /\ Contains(ret.res.value, "129")
         /\ ~Contains(ret.res.value, "Amsterdam")

C2_Witness ==
  /\ ret.fn = "getEventTeaser"
  /\ ret.event = script19
  /\ ret.res = Returned("Hello world Conference. Priced at 129 USD")

(* C3 as stated: getEventTeaser3 called with an event whose kind is not    *)
(* one of Webinar, Conference, Meetup, Hackathon throws and returns        *)
(* nothing.                                                                *)
C3_OutOfSetKindThrows ==
  (ret.fn = "getEventTeaser3" /\ ret.event.kind \notin EventKind2) =>
    ret.res.outcome = "threw"

(* C4: a dispatcher called with a value of its parameter's type            *)
(* (TechEventNew for getEventTeaser and getEventTeaser2, TechEventNewer    *)
(* for getEventTeaser3) returns a string and never reaches the default     *)
(* branch.                                                                 *)
C4_NoThrowInCorrectUse ==
  (ret.fn \in TeaserFns /\ ret.typeOk) =>
    /\ ret.res.outcome = "returned"
    /\ StartsWith(ret.res.value, ret.event.title.v)
    /\ Len(ret.res.value) > Len(ret.event.title.v)

C4_Witness ==
  /\ ret.fn = "getEventTeaser3"
  /\ ret.event.kind = "Hackathon"
  /\ ret.typeOk
  /\ ret.res.outcome = "returned"

-----------------------------------------------------------------------------
(* Properties of the derived lookups.                                      *)

(* C5: groupEvents([]) returns a mapping with the keys Conference,         *)
(* Hackathon, Meetup and Webinar, each mapped to the empty sequence.       *)
C5_EmptyListAllKeys ==
  (ret.fn = "groupEvents" /\ eventList = <<>>) =>
    /\ ret.res.outcome = "returned"
    /\ DOMAIN ret.res.value = {"Conference", "Hackathon", "Meetup", "Webinar"}
    /\ \A k \in DOMAIN ret.res.value : ret.res.value[k] = <<>>

C5_Witness ==
  /\ ret.fn = "groupEvents"
  /\ eventList = <<>>
  /\ ret.res.outcome = "returned"
  /\ ret.res.value["Hackathon"] = <<>>

(* C6: the kinds collected from the variants of TechEventNewer are the    *)
(* set EventKind2, the kinds of the values of that type are the same set,  *)
(* and it is the key set of every mapping groupEvents returns.             *)
C6_KindsAreGroupKeys ==
  /\ EventKind2 = {"Conference", "Webinar", "Hackathon", "Meetup"}
  /\ {e.kind : e \in {x \in EventPool : HasType(x, TechEventNewer)}} = EventKind2
  /\ (ret.fn = "groupEvents" /\ ret.res.outcome = "returned") =>
       DOMAIN ret.res.value = EventKind2

C6_Witness ==
  /\ ret.fn = "groupEvents"
  /\ ret.res.outcome = "returned"
  /\ Len(eventList) >= 2
  /\ eventList[1].kind # eventList[2].kind
  /\ DOMAIN ret.res.value = EventKind2

(* C7: no two of the variants ConferenceNew, MeetupNew, WebinarNew and     *)
(* Hackathon have the same kind, every legal kind (every key a grouping    *)
(* has) is the kind of a variant and every variant's kind is legal; so a   *)
(* value of the union type has exactly one variant.                        *)
C7_UniqueDiscriminant ==
  /\ \A V, W \in {ConferenceNew, MeetupNew, WebinarNew, Hackathon} :
       V.kind = W.kind => V = W
  /\ Cardinality({ConferenceNew, MeetupNew, WebinarNew, Hackathon}) = 4
  /\ {V.kind : V \in TechEventNewer} = DOMAIN EmptyGroups
  /\ {V.kind : V \in TechEventNew} = EventKind
  /\ \A i \in 1..Len(eventList) :
       HasType(eventList[i], TechEventNewer) =>
         Cardinality({V \in TechEventNewer : HasVariant(eventList[i], V)}) = 1
  /\ (ret.fn \in TeaserFns /\ ret.typeOk) =>
       Cardinality({V \in TechEventNewer : V.kind = ret.event.kind}) = 1

C7_Witness ==
  /\ Len(eventList) >= 2
  /\ HasVariant(eventList[1], Hackathon)
  /\ HasVariant(eventList[2], MeetupNew)
  /\ ret.fn = "getEventTeaser3"
  /\ ret.typeOk
  /\ ret.event.kind = "Hackathon"

(* C8 as stated: the kind of every variant of TechEventNewer, Hackathon    *)
(* included, is accepted as the kind argument of filterByEvent and of      *)
(* filterByEvent2 and is a key of the mapping groupEvents builds.          *)
C8_EveryKindAccepted ==
  \A V \in TechEventNewer :
    /\ (/\ ret.fn \in {"filterByEvent", "filterByEvent2"}
        /\ ret.kind = V.kind
        /\ IsListOf(eventList, TechEventNew)) => ret.typeOk
    /\ (ret.fn = "groupEvents" /\ ret.res.outcome = "returned") =>
         V.kind \in DOMAIN ret.res.value

(* C8 amended: the kind of every variant of TechEventNewer is accepted as  *)
(* the kind argument of filterByEvent2 and is a key of the mapping         *)
(* groupEvents builds; filterByEvent, whose parameter is the hand-written  *)
(* EventKind, accepts Conference, Webinar and Meetup and rejects           *)
(* Hackathon.                                                              *)
C8_DerivedLookupsWiden ==
  \A V \in TechEventNewer :
    /\ (/\ ret.fn = "filterByEvent2"
        /\ ret.kind = V.kind
        /\ IsListOf(eventList, TechEventNew)) => ret.typeOk
    /\ (/\ ret.fn = "filterByEvent"
        /\ ret.kind = V.kind
        /\ IsListOf(eventList, TechEventNew)) => (ret.typeOk <=> V # Hackathon)
    /\ (ret.fn = "groupEvents" /\ ret.res.outcome = "returned") =>
         V.kind \in DOMAIN ret.res.value

C8_Witness ==
  /\ ret.fn = "filterByEvent2"
  /\ ret.kind = "Hackathon"
  /\ Len(eventList) > 0
  /\ ret.typeOk

-----------------------------------------------------------------------------
(* Properties of the user factory.                                         *)

(* C9 as stated: two calls with equal arguments return equal records, and  *)
(* no call changes state shared between calls.                             *)
C9_Pure ==
  \A i, j \in 1..Len(users) :
    (i # j /\ users[i].fn = users[j].fn /\ users[i].args = users[j].args) =>
      /\ users[i].value = users[j].value
      /\ userId = 0

(* C9 amended: createUser and createUser2 read and increment the shared    *)
(* counter userId: the k-th call of either returns id k - 1 and leaves     *)
(* userId = k, so no two calls return the same id; two calls with equal    *)
(* arguments return records that agree on the arguments they carry.        *)
C9_IdsCountCalls ==
  /\ userId = Len(users)
  /\ \A i \in 1..Len(users) : users[i].value.id = i - 1
  /\ \A i, j \in 1..Len(users) : i # j => users[i].value # users[j].value
  /\ \A i, j \in 1..Len(users) :
       (users[i].fn = users[j].fn /\ users[i].args = users[j].args) =>
         IF users[i].fn = "createUser"
         THEN /\ users[i].value.names = users[j].value.names
              /\ users[i].value.roles = users[j].value.roles
         ELSE /\ users[i].value.name = users[j].value.name
              /\ users[i].value.role = users[j].value.role
              /\ users[i].value.isActive = users[j].value.isActive

C9_Witness ==
  /\ Len(users) >= 2
  /\ users[1].fn = "createUser2"
  /\ users[2].fn = "createUser2"
  /\ users[1].args = users[2].args
  /\ users[1].value.createdAt = users[2].value.createdAt
  /\ users[1].value.id = 0
  /\ users[2].value.id = 1

-----------------------------------------------------------------------------
(* Properties of the filters and of the grouping.                          *)

RECURSIVE SumOver(_, _)
SumOver(f, keys) ==
  IF keys = {} THEN 0
  ELSE LET k == CHOOSE x \in keys : TRUE
       IN  Len(f[k]) + SumOver(f, keys \ {k})

(* C11 as stated: filterByEvent(list, kind) and filterByEvent2(list, kind) *)
(* return the events of list whose kind equals kind, in their original     *)
(* order (stated for the calls the parameter types allow).                 *)
C11_FilterKeepsKind ==
  (ret.fn \in {"filterByEvent", "filterByEvent2"} /\ ret.typeOk) =>
    /\ ret.res.outcome = "returned"
    /\ ret.res.value = SelectSeq(eventList, LAMBDA event : event.kind = ret.kind)

(* C12: for every list of events of type TechEventNewer, groupEvents       *)
(* returns a mapping in which the group of each kind is the subsequence of *)
(* the input's events of that kind, in input order (so each event is in    *)
(* the group of its own kind once per occurrence and in no other), and the *)
(* group lengths sum to the input's length.                                *)
C12_GroupsPartitionInput ==
  (ret.fn = "groupEvents" /\ IsListOf(eventList, TechEventNewer)) =>
    /\ ret.res.outcome = "returned"
    /\ \A k \in DOMAIN ret.res.value :
         ret.res.value[k] = SelectSeq(eventList, LAMBDA event : event.kind = k)
    /\ \A i \in 1..Len(eventList) : eventList[i].kind \in DOMAIN ret.res.value
    /\ SumOver(ret.res.value, DOMAIN ret.res.value) = Len(eventList)

C12_Witness ==
  /\ ret.fn = "groupEvents"
  /\ ret.res.outcome = "returned"
  /\ Len(eventList) >= 2
  /\ eventList[1].kind = "Hackathon"
  /\ eventList[2].kind = "Hackathon"
  /\ eventList[1] # eventList[2]
  /\ ret.res.value["Hackathon"] = <<eventList[1], eventList[2]>>

-----------------------------------------------------------------------------
(* Lesson 26: the events of a user, by category.                           *)

Arr(list) == [t |-> "array", v |-> list]
Function == [t |-> "function", v |-> 0]

(* The property names every object inherits from Object.prototype. *)
ObjectPrototypeKeys ==
  {"constructor", "hasOwnProperty", "isPrototypeOf", "propertyIsEnumerable",
   "toLocaleString", "toString", "valueOf"}

(* obj[key] for an object whose own properties hold arrays: the own        *)
(* property, else the inherited method, else undefined.                    *)
GetList(obj, key) ==
  IF key \in DOMAIN obj THEN Arr(obj[key])
  ELSE IF key \in ObjectPrototypeKeys THEN Function
  ELSE Undefined

(* keyof userEvents *)
UserEventCategory == {"watching", "rsvp", "attended", "signedOff"}

(* list.filter((event) => event.kind === filterKind) when list is an       *)
(* array; undefined has no properties and a function has no filter, so     *)
(* the call throws a TypeError.                                            *)
filterList(filteredList, filterKind) ==
  IF filteredList.t = "array"
  THEN Returned(Arr(SelectSeq(filteredList.v,
                              LAMBDA event : event.kind = filterKind)))
  ELSE Threw("TypeError")

filterUserEvent(list, category, filterKind) ==
  LET filteredList == GetList(list, category)
  IN  IF Truthy(Str(filterKind))
      THEN filterList(filteredList, filterKind)
      ELSE Returned(filteredList)

(* The guard written with the in operator, which also finds inherited      *)
(* properties.                                                             *)
isUserEventListIn(list, category) ==
  category \in DOMAIN list \/ category \in ObjectPrototypeKeys

(* Object.keys(list).includes(category): the own enumerable keys. *)
isUserEventList(list, category) == category \in DOMAIN list

(* A function that ends without a return returns undefined. *)
filterUserEvent2(list, category, filterKind) ==
  IF isUserEventList(list, category)
  THEN LET filteredList == GetList(list, category)
       IN  IF Truthy(Str(filterKind))
           THEN filterList(filteredList, filterKind)
           ELSE Returned(filteredList)
  ELSE Returned(Undefined)

isUserEventList2(list, category) == category \in DOMAIN list

(* Inputs: the lists of a category, the categories and kinds a caller      *)
(* passes ("" is the falsy filterKind).                                    *)
UserEventPool ==
  { script19,
    [kind |-> "Hackathon", title |-> Str("TS"), location |-> Str("Vienna")],
    [kind |-> "Hackathon", title |-> Str("JS"), location |-> Str("Linz"),
     price |-> Num(7)] }
UserLists(n) == UNION {[1..k -> UserEventPool] : k \in 0..n}
CategoryPool == UserEventCategory \cup {"deleted", "toString"}
FilterKindPool == EventKind2 \cup {""}

(* A userEvents object, and one an untyped caller built without signedOff. *)
UserEventObjects(n) ==
  { [watching |-> w, rsvp |-> r, attended |-> <<>>, signedOff |-> <<script19>>] :
      w \in UserLists(n), r \in UserLists(1) }
  \cup
  { [watching |-> w, rsvp |-> r, attended |-> <<>>] :
      w \in UserLists(n), r \in UserLists(1) }

InitUserEvents ==
  /\ userEventList \in UserEventObjects(MaxUserEvents)
  /\ filtered = [fn |-> "none", category |-> "", kind |-> "",
                 res |-> Returned(Undefined)]
  /\ IdleEvents /\ IdleFactory /\ IdleVideo /\ IdlePrefs /\ IdleContainer

CallFilterUserEvent(category, filterKind) ==
  /\ filtered' = [fn |-> "filterUserEvent", category |-> category,
                  kind |-> filterKind,
                  res |-> filterUserEvent(userEventList, category, filterKind)]
  /\ UNCHANGED <<userEventList, eventVars, factoryVars, videoVars, prefVars,
                 containerVars>>

CallFilterUserEvent2(category, filterKind) ==
  /\ filtered' = [fn |-> "filterUserEvent2", category |-> category,
                  kind |-> filterKind,
                  res |-> filterUserEvent2(userEventList, category, filterKind)]
  /\ UNCHANGED <<userEventList, eventVars, factoryVars, videoVars, prefVars,
                 containerVars>>

NextUserEvents ==
  \/ \E category \in CategoryPool, filterKind \in FilterKindPool :
       CallFilterUserEvent(category, filterKind)
  \/ \E category \in CategoryPool, filterKind \in FilterKindPool :
       CallFilterUserEvent2(category, filterKind)

SpecUserEvents == InitUserEvents /\ [][NextUserEvents]_vars

(* C13: filterUserEvent2 called with a category that is a key of           *)
(* userEventList returns what filterUserEvent returns for the same         *)
(* arguments: the events of userEventList[category] whose kind equals      *)
(* filterKind, in order, or the whole list when filterKind is falsy;       *)
(* called with a category that is not a key it returns undefined.          *)
C13_GuardedFilter ==
  (filtered.fn = "filterUserEvent2") =>
    IF filtered.category \in DOMAIN userEventList
    THEN /\ filtered.res =
              filterUserEvent(userEventList, filtered.category, filtered.kind)
         /\ filtered.res.outcome = "returned"
         /\ filtered.res.value.t = "array"
         /\ filtered.res.value.v =
              IF filtered.kind = "" THEN userEventList[filtered.category]
              ELSE SelectSeq(userEventList[filtered.category],
                             LAMBDA event : event.kind = filtered.kind)
    ELSE /\ filtered.res.outcome = "returned"
         /\ filtered.res.value.t = "undefined"

C13_Witness ==
  /\ filtered.fn = "filterUserEvent2"
  /\ filtered.category = "watching"
  /\ filtered.kind = "Hackathon"
  /\ Len(userEventList["watching"]) = 2
  /\ userEventList["watching"][1] = script19
  /\ filtered.res = Returned(Arr(<<userEventList["watching"][2]>>))

(* The guard at work: a category that is no key, where filterUserEvent     *)
(* throws and filterUserEvent2 returns undefined.                          *)
C13_WitnessNotAKey ==
  /\ filtered.fn = "filterUserEvent2"
  /\ filtered.category = "toString"
  /\ filtered.kind = "Hackathon"
  /\ filtered.res = Returned(Undefined)
  /\ filterUserEvent(userEventList, "toString", "Hackathon").outcome = "threw"

-----------------------------------------------------------------------------
(* Lessons 29-31: format objects, the guards on their keys, loading.       *)

URL(href) == [href |-> href]

(* The object literal of the source, and an object of type HDVideo. *)
urlObject ==
  [format360p |-> URL("https://www.example.com/360p"),
   format480p |-> URL("https://www.example.com/480p"),
   format720p |-> URL("https://www.example.com/720p"),
   format1080p |-> URL("https://www.example.com/1080p")]
hdVideo ==
  [format720p |-> URL("https://www.example.com/720p"),
   format1080p |-> URL("https://www.example.com/1080p")]
VideoObjects == {urlObject, hdVideo}

(* Keys a caller asks about: declared ones, an undeclared one, inherited   *)
(* ones.                                                                   *)
KeyPool ==
  {"format360p", "format480p", "format720p", "format1080p", "format9999p",
   "toString", "constructor"}

(* key in obj: true for an own property and for one found on the           *)
(* prototype chain; these objects inherit from Object.prototype.           *)
In(key, obj) == key \in DOMAIN obj \/ key \in ObjectPrototypeKeys

isFormatAvailable(obj, key) == In(key, obj)
subtitlesAvailable(obj, key) == In(key, obj)
isAvailable(obj, key) == In(key, obj)

(* The load.  fileFormats[format].href is read when the function is        *)
(* called; the function then waits for fetch, which resolves with a        *)
(* response of some status or rejects (no network, refused connection).    *)
StatusPool == {200, 201, 404, 500}
LoadFormatPool ==
  {"format360p", "format480p", "format720p", "format1080p", "format9999p"}

(* The test on the status written as res.ok would be. *)
ResponseOk(status) == status \in 200..299

ResponseLoaded(status) == status = 200

Loaded(format, status) == [format |-> format, loaded |-> ResponseLoaded(status)]

(* status is the status of res, 0 while there is no response. *)
NoLoad == [fn |-> "none", format |-> "", pc |-> "idle", url |-> "",
           status |-> 0, value |-> Undefined, thrown |-> ""]

InitVideo ==
  /\ videos \in VideoObjects
  /\ guard = [fn |-> "none", key |-> "", res |-> FALSE]
  /\ load = NoLoad
  /\ IdleEvents /\ IdleFactory /\ IdleUserEvents /\ IdlePrefs /\ IdleContainer

CallIsFormatAvailable(key) ==
  /\ guard' = [fn |-> "isFormatAvailable", key |-> key,
               res |-> isFormatAvailable(videos, key)]
  /\ UNCHANGED <<videos, load, eventVars, factoryVars, userEventVars, prefVars,
                 containerVars>>

CallSubtitlesAvailable(key) ==
  /\ guard' = [fn |-> "subtitlesAvailable", key |-> key,
               res |-> subtitlesAvailable(videos, key)]
  /\ UNCHANGED <<videos, load, eventVars, factoryVars, userEventVars, prefVars,
                 containerVars>>

CallIsAvailable(key) ==
  /\ guard' = [fn |-> "isAvailable", key |-> key,
               res |-> isAvailable(videos, key)]
  /\ UNCHANGED <<videos, load, eventVars, factoryVars, userEventVars, prefVars,
                 containerVars>>

(* loadFile3 / loadFile4 up to the await: with a format that is no key,    *)
(* fileFormats[format] is undefined and reading .href throws, which        *)
(* rejects the promise the async function returned.                        *)
CallLoadFile(fn, format) ==
  /\ load.pc # "awaiting"
  /\ load' = IF format \in DOMAIN videos
             THEN [fn |-> fn, format |-> format, pc |-> "awaiting",
                   url |-> videos[format].href, status |-> 0,
                   value |-> Undefined, thrown |-> ""]
             ELSE [fn |-> fn, format |-> format, pc |-> "rejected",
                   url |-> "", status |-> 0, value |-> Undefined,
                   thrown |-> "TypeError"]
  /\ UNCHANGED <<videos, guard, eventVars, factoryVars, userEventVars, prefVars,
                 containerVars>>

(* fetch resolves: the function returns { format, loaded }. *)
FetchResponds(status) ==
  /\ load.pc = "awaiting"
  /\ load' = [load EXCEPT !.pc = "resolved", !.status = status,
                          !.value = Loaded(load.format, status)]
  /\ UNCHANGED <<videos, guard, eventVars, factoryVars, userEventVars, prefVars,
                 containerVars>>

(* fetch rejects: the await throws and the function's promise rejects. *)
FetchFails ==
  /\ load.pc = "awaiting"
  /\ load' = [load EXCEPT !.pc = "rejected", !.thrown = "TypeError: fetch failed"]
  /\ UNCHANGED <<videos, guard, eventVars, factoryVars, userEventVars, prefVars,
                 containerVars>>

(* The caller's test of the result against the format it asked for. *)
CheckResult ==
  /\ load.pc = "resolved"
  /\ load' = IF load.value.format # load.format
             THEN [load EXCEPT !.pc = "threw", !.thrown = "Unexpected format"]
             ELSE [load EXCEPT !.pc = "checked"]
  /\ UNCHANGED <<videos, guard, eventVars, factoryVars, userEventVars, prefVars,
                 containerVars>>

NextVideo ==
  \/ \E key \in KeyPool : CallIsFormatAvailable(key)
  \/ \E key \in KeyPool : CallSubtitlesAvailable(key)
  \/ \E key \in KeyPool : CallIsAvailable(key)
  \/ \E fn \in {"loadFile3", "loadFile4"}, format \in LoadFormatPool :
       CallLoadFile(fn, format)
  \/ \E status \in StatusPool : FetchResponds(status)
  \/ FetchFails
  \/ CheckResult

SpecVideo == InitVideo /\ [][NextVideo]_vars

(* C14 as stated: isFormatAvailable(obj, key) and isAvailable(obj, key)    *)
(* return true exactly when key is one of the object's own declared keys   *)
(* (so that obj[key] is a declared URL), and agree with the                *)
(* Object.keys-based isUserEventList2 on every key.                        *)
C14_GuardsSound ==
  (guard.fn \in {"isFormatAvailable", "isAvailable"}) =>
    /\ guard.res <=> guard.key \in DOMAIN videos
    /\ guard.res = isUserEventList2(videos, guard.key)

(* C15 as stated: for every key format of fileFormats, loadFile3 and       *)
(* loadFile4 resolve to a record with the requested format and loaded =    *)
(* (status = 200), and "Unexpected format" is never thrown.                *)
C15_AlwaysResolves ==
  (load.fn \in {"loadFile3", "loadFile4"} /\ load.format \in DOMAIN videos) =>
    /\ load.pc \in {"awaiting", "resolved", "checked"}
    /\ load.pc \in {"resolved", "checked"} =>
         load.value = [format |-> load.format, loaded |-> (load.status = 200)]
    /\ load.thrown # "Unexpected format"

(* C15 amended: for every key format of fileFormats, whenever fetch gives  *)
(* a response loadFile3 and loadFile4 resolve to a record with the         *)
(* requested format and loaded = (status = 200); when fetch rejects, the   *)
(* call rejects with fetch's error; "Unexpected format" is never thrown.   *)
C15_ResolvesWhenFetchDoes ==
  (load.fn \in {"loadFile3", "loadFile4"} /\ load.format \in DOMAIN videos) =>
    /\ load.pc \in {"awaiting", "resolved", "checked", "rejected"}
    /\ load.pc \in {"resolved", "checked"} =>
         /\ load.status \in StatusPool
         /\ load.value = [format |-> load.format, loaded |-> (load.status = 200)]
    /\ load.pc = "rejected" =>
         load.status = 0 /\ load.thrown = "TypeError: fetch failed"
    /\ load.thrown # "Unexpected format"

C15_Witness ==
  /\ load.fn = "loadFile4"
  /\ load.format = "format720p"
  /\ load.pc = "checked"
  /\ load.status = 201
  /\ load.value = [format |-> "format720p", loaded |-> FALSE]

C15_WitnessLoaded ==
  /\ load.fn = "loadFile3"
  /\ load.format = "format360p"
  /\ load.url = "https://www.example.com/360p"
  /\ load.pc = "checked"
  /\ load.value = [format |-> "format360p", loaded |-> TRUE]

-----------------------------------------------------------------------------
(* Lesson 33: user preferences.  An object is a function from its own      *)
(* property names to values; a nested object is a value Obj(...).          *)

Bool(b) == [t |-> "boolean", v |-> b]
Obj(o) == [t |-> "object", v |-> o]

(* keyof UserPreferences and the keys of its subtitles property. *)
UserPreferencesKeys == {"format", "subtitles", "theme"}
SubtitlesKeys == {"active", "language"}

defaultUserPreferences ==
  [format |-> Str("format360p"),
   subtitles |-> Obj([active |-> Bool(FALSE), language |-> Str("english")]),
   theme |-> Str("dark")]

DefaultsPool ==
  { defaultUserPreferences,
    [format |-> Str("format1080p"),
     subtitles |-> Obj([active |-> Bool(TRUE), language |-> Str("dutch")]),
     theme |-> Str("light")] }

(* The functions from a subset of keys to the values given for each key. *)
PartialObjects(keys, values) ==
  UNION {{f \in [K -> UNION {values[k] : k \in K}] :
            \A k \in K : f[k] \in values[k]} : K \in SUBSET keys}

(* What a caller passes as userPreferences: any subset of the keys; the    *)
(* subtitles whole (Partial) or in part (DeepPartial); a key may be        *)
(* present with the value undefined.                                       *)
SubtitlesPool ==
  {Obj(o) : o \in PartialObjects(SubtitlesKeys,
                     [active |-> {Bool(TRUE)}, language |-> {Str("german")}])}
UserPrefPool ==
  PartialObjects(UserPreferencesKeys,
    [format |-> {Str("format720p"), Str("format360p")},
     subtitles |-> SubtitlesPool,
     theme |-> {Str("light"), Undefined}])

(* Partial<UserPreferences>: a subtitles property, when present, is whole. *)
IsPartialPrefs(user) ==
  "subtitles" \in DOMAIN user => DOMAIN user["subtitles"].v = SubtitlesKeys

(* The spreads in the other order: the defaults win. *)
SpreadFirstWins(a, b) ==
  [k \in DOMAIN a \cup DOMAIN b |-> IF k \in DOMAIN a THEN a[k] ELSE b[k]]

(* { ...a, ...b }: the own properties of a, then those of b over them. *)
Spread(a, b) ==
  [k \in DOMAIN a \cup DOMAIN b |-> IF k \in DOMAIN b THEN b[k] ELSE a[k]]

mergePreferences(defaultPreferences, userPreferences) ==
  Spread(defaultPreferences, userPreferences)

mergePreferences2(defaultPreferences, userPreferences) ==
  Spread(defaultPreferences, userPreferences)

(* Object.freeze(obj): the object itself becomes frozen; the objects its   *)
(* properties refer to stay as they are.  frozen holds the frozen objects: *)
(* "root" for the object, "subtitles" for the nested one.                  *)
ObjectFreeze(frozen) == frozen \cup {"root"}

genDefaults(frozen) == ObjectFreeze(frozen)
genDefaults2(frozen) == ObjectFreeze(frozen)

(* The defaults object: its properties now, which of its objects are       *)
(* frozen, the function that returned it and the properties it had then,   *)
(* and how the last assignment to it ended.                                *)
Fresh(obj) ==
  [obj |-> obj, frozen |-> {}, by |-> "none", original |-> obj, last |-> ""]

NoMerge == [fn |-> "none", user |-> <<>>, typeOk |-> TRUE, res |-> <<>>]

(* The merges, made on an object genDefaults2 returned. *)
InitMerge ==
  /\ \E obj \in DefaultsPool :
       defaults = [Fresh(obj) EXCEPT !.frozen = genDefaults2(@),
                                     !.by = "genDefaults2"]
  /\ merged = NoMerge
  /\ IdleEvents /\ IdleFactory /\ IdleUserEvents /\ IdleVideo /\ IdleContainer

CallMergePreferences(user) ==
  /\ merged' = [fn |-> "mergePreferences", user |-> user,
                typeOk |-> IsPartialPrefs(user),
                res |-> mergePreferences(defaults.obj, user)]
  /\ UNCHANGED <<defaults, eventVars, factoryVars, userEventVars, videoVars, containerVars>>

CallMergePreferences2(user) ==
  /\ merged' = [fn |-> "mergePreferences2", user |-> user,
                typeOk |-> TRUE,
                res |-> mergePreferences2(defaults.obj, user)]
  /\ UNCHANGED <<defaults, eventVars, factoryVars, userEventVars, videoVars, containerVars>>

NextMerge ==
  \/ \E user \in UserPrefPool : CallMergePreferences(user)
  \/ \E user \in UserPrefPool : CallMergePreferences2(user)

SpecMerge == InitMerge /\ [][NextMerge]_vars

(* C16: mergePreferences(defaults, user) has, for every top-level key k,   *)
(* result[k] = user[k] when user has k and result[k] = defaults[k]         *)
(* otherwise, and the keys of the result are those of UserPreferences.     *)
C16_UserOverwritesDefaults ==
  (merged.fn = "mergePreferences") =>
    /\ DOMAIN merged.res = UserPreferencesKeys
    /\ \A k \in UserPreferencesKeys :
         merged.res[k] = IF k \in DOMAIN merged.user THEN merged.user[k]
                         ELSE defaults.obj[k]

C16_Witness ==
  /\ merged.fn = "mergePreferences"
  /\ defaults.obj = defaultUserPreferences
  /\ merged.user = [format |-> Str("format720p"), theme |-> Str("light")]
  /\ merged.res = [format |-> Str("format720p"),
                   subtitles |-> defaultUserPreferences.subtitles,
                   theme |-> Str("light")]

(* A value a preference can take: none is undefined. *)
IsDefined(value) == value.t # "undefined"

(* C17 as stated (for preferences whose supplied values are defined):      *)
(* mergePreferences2 returns a complete UserPreferences; of a nested       *)
(* object supplied in part, the supplied fields are taken and every other  *)
(* nested field keeps its default.                                         *)
C17_NestedDefaultsKept ==
  (/\ merged.fn = "mergePreferences2"
   /\ \A k \in DOMAIN merged.user : IsDefined(merged.user[k])) =>
    /\ DOMAIN merged.res = UserPreferencesKeys
    /\ merged.res["subtitles"].t = "object"
    /\ DOMAIN merged.res["subtitles"].v = SubtitlesKeys
    /\ \A f \in SubtitlesKeys :
         merged.res["subtitles"].v[f] =
           IF "subtitles" \in DOMAIN merged.user
                /\ f \in DOMAIN merged.user["subtitles"].v
           THEN merged.user["subtitles"].v[f]
           ELSE defaults.obj["subtitles"].v[f]

-----------------------------------------------------------------------------
(* Lesson 33: frozen defaults.  The file is a module (it uses top-level    *)
(* await), so its code is strict: an assignment to a property of a frozen  *)
(* object throws a TypeError and changes nothing.                          *)

TopValues ==
  [format |-> {Str("format360p"), Str("format720p"), Str("format1080p")},
   theme |-> {Str("dark"), Str("light")}]
NestedValues ==
  [active |-> {Bool(FALSE), Bool(TRUE)},
   language |-> {Str("english"), Str("german"), Str("dutch")}]

InitFreeze ==
  /\ \E obj \in DefaultsPool : defaults = Fresh(obj)
  /\ merged = NotInUse
  /\ IdleEvents /\ IdleFactory /\ IdleUserEvents /\ IdleVideo /\ IdleContainer

CallGenDefaults(obj) ==
  /\ defaults' = [Fresh(obj) EXCEPT !.frozen = genDefaults(@), !.by = "genDefaults"]
  /\ UNCHANGED <<merged, eventVars, factoryVars, userEventVars, videoVars, containerVars>>

CallGenDefaults2(obj) ==
  /\ defaults' = [Fresh(obj) EXCEPT !.frozen = genDefaults2(@), !.by = "genDefaults2"]
  /\ UNCHANGED <<merged, eventVars, factoryVars, userEventVars, videoVars, containerVars>>

(* defaults[key] = value *)
AssignTop(key, value) ==
  /\ defaults' = IF "root" \in defaults.frozen
                 THEN [defaults EXCEPT !.last = "TypeError"]
                 ELSE [defaults EXCEPT !.obj[key] = value, !.last = "assigned"]
  /\ UNCHANGED <<merged, eventVars, factoryVars, userEventVars, videoVars, containerVars>>

(* defaults.subtitles[field] = value *)
AssignNested(field, value) ==
  /\ defaults' = IF "subtitles" \in defaults.frozen
                 THEN [defaults EXCEPT !.last = "TypeError"]
                 ELSE [defaults EXCEPT !.obj["subtitles"].v[field] = value,
                                       !.last = "assigned"]
  /\ UNCHANGED <<merged, eventVars, factoryVars, userEventVars, videoVars, containerVars>>

NextFreeze ==
  \/ \E obj \in DefaultsPool : CallGenDefaults(obj)
  \/ \E obj \in DefaultsPool : CallGenDefaults2(obj)
  \/ \E key \in DOMAIN TopValues : \E value \in TopValues[key] :
       AssignTop(key, value)
  \/ \E field \in DOMAIN NestedValues : \E value \in NestedValues[field] :
       AssignNested(field, value)

SpecFreeze == InitFreeze /\ [][NextFreeze]_vars

(* C18 as stated: after genDefaults2(obj), whatever assignments are made   *)
(* to a top-level property or to subtitles.active or subtitles.language,   *)
(* the object's stored values stay those it was returned with.             *)
C18_DeeplyImmutable ==
  defaults.by = "genDefaults2" => defaults.obj = defaults.original

-----------------------------------------------------------------------------
(* Lesson 35: the Container class.  dom maps each element to its tag, its  *)
(* src and its children; container holds the instance's private fields     *)
(* (element is "unset" until the setter runs, "null" for null), the values *)
(* the setter was given last, and the last call with its outcome.          *)

ElementPool == {"video1", "div1"}
ElementValues == ElementPool \cup {"null"}

(* document.createElement(tag) *)
createElement(tag) == [tag |-> tag, src |-> "", children |-> <<>>]

(* value instanceof HTMLVideoElement *)
IsVideoElement(domv, value) == value \in DOMAIN domv /\ domv[value].tag = "video"

(* ToBoolean of the field: undefined and null are falsy, an element is     *)
(* truthy.                                                                 *)
IsElement(value) == value \notin {"unset", "null"}

(* videoFormatUrls: all four formats are there. *)
IsVideoFormatUrls(formats) ==
  DOMAIN formats = {"format360p", "format480p", "format720p", "format1080p"}

(* The body of loadVideo after selectedFormat is read: the outcome and the *)
(* elements afterwards.  This one lacks the first branch: it appends to    *)
(* whatever element there is.                                              *)
loadVideoAlwaysAppends(element, domv, selectedFormat) ==
  IF IsElement(element)
  THEN [res |-> Returned(Undefined),
        dom |-> [domv EXCEPT ![element].children =
                   Append(@, [createElement("video") EXCEPT !.src = selectedFormat])]]
  ELSE [res |-> Threw("No element provided"), dom |-> domv]

loadVideoBody(element, domv, selectedFormat) ==
  IF IsVideoElement(domv, element)
  THEN [res |-> Returned(Undefined),
        dom |-> [domv EXCEPT ![element].src = selectedFormat]]
  ELSE IF IsElement(element)
  THEN [res |-> Returned(Undefined),
        dom |-> [domv EXCEPT ![element].children =
                   Append(@, [createElement("video") EXCEPT !.src = selectedFormat])]]
  ELSE [res |-> Threw("No element provided"), dom |-> domv]

(* loadVideo: formats[this.#prefs.format].href is read first; when formats *)
(* has no such format the read throws a TypeError.                         *)
loadVideo(element, prefs, domv, formats) ==
  IF prefs["format"].v \in DOMAIN formats
  THEN loadVideoBody(element, domv, formats[prefs["format"].v].href)
  ELSE [res |-> Threw("TypeError"), dom |-> domv]

(* this.#element ?? null *)
getElement(element) == IF element = "unset" THEN "null" ELSE element

(* new Container(prefs), and the elements of the page. *)
InitContainer ==
  /\ \E prefs \in DefaultsPool :
       container = [element |-> "unset", prefs |-> prefs, assigned |-> "none",
                    last |-> [op |-> "new", arg |-> <<>>, typeOk |-> TRUE,
                              res |-> Returned(Undefined)]]
  /\ dom = [video1 |-> createElement("video"), div1 |-> createElement("div")]
  /\ IdleEvents /\ IdleFactory /\ IdleUserEvents /\ IdleVideo /\ IdlePrefs

SetElement(value) ==
  /\ container' = [container EXCEPT
                     !.element = value, !.assigned = value,
                     !.last = [op |-> "set", arg |-> value, typeOk |-> TRUE,
                               res |-> Returned(Undefined)]]
  /\ UNCHANGED <<dom, eventVars, factoryVars, userEventVars, videoVars, prefVars>>

GetElement ==
  /\ container' = [container EXCEPT
                     !.last = [op |-> "get", arg |-> <<>>, typeOk |-> TRUE,
                               res |-> Returned(getElement(container.element))]]
  /\ UNCHANGED <<dom, eventVars, factoryVars, userEventVars, videoVars, prefVars>>

LoadVideo(formats) ==
  LET done == loadVideo(container.element, container.prefs, dom, formats)
  IN  /\ \A e \in DOMAIN dom : Len(dom[e].children) < MaxChildren
      /\ container' = [container EXCEPT
                         !.last = [op |-> "loadVideo", arg |-> formats,
                                   typeOk |-> IsVideoFormatUrls(formats),
                                   res |-> done.res]]
      /\ dom' = done.dom
      /\ UNCHANGED <<eventVars, factoryVars, userEventVars, videoVars, prefVars>>

NextContainer ==
  \/ \E value \in ElementValues : SetElement(value)
  \/ GetElement
  \/ \E formats \in VideoObjects : LoadVideo(formats)

SpecContainer == InitContainer /\ [][NextContainer]_vars

(* C19: in every sequence of element assignments and loadVideo calls       *)
(* (with formats of type videoFormatUrls), loadVideo throws "No element    *)
(* provided" exactly when the current element is unset or null, and then   *)
(* changes nothing; it sets src on the element itself when that is a video *)
(* element; otherwise it appends to the element a new video child whose    *)
(* src is formats[prefs.format].href.  The getter returns the value        *)
(* assigned last, or null when none was assigned.                          *)
C19_Step ==
  LET e == container.element
      call == container'.last
      href == call.arg[container.prefs["format"].v].href
  IN  /\ (call.op = "loadVideo" /\ call.typeOk) =>
           /\ (call.res.outcome = "threw") <=> e \in {"unset", "null"}
           /\ e \in {"unset", "null"} =>
                /\ call.res = Threw("No element provided")
                /\ dom' = dom
                /\ container'.element = e
           /\ (e \in ElementPool /\ dom[e].tag = "video") =>
                dom' = [dom EXCEPT ![e].src = href]
           /\ (e \in ElementPool /\ dom[e].tag # "video") =>
                /\ dom' = [dom EXCEPT ![e].children =
                             Append(@, [tag |-> "video", src |-> href,
                                        children |-> <<>>])]
      /\ call.op = "get" =>
           /\ call.res = Returned(IF container.assigned = "none" THEN "null"
                                  ELSE container.assigned)
           /\ dom' = dom
           /\ container'.element = e

C19_ContainerBehaviour == [][C19_Step]_vars

C19_Witness ==
  /\ container.element = "null"
  /\ container.last.op = "loadVideo"
  /\ container.last.typeOk
  /\ container.last.res = Threw("No element provided")
  /\ dom["video1"].src = "https://www.example.com/360p"
  /\ Len(dom["div1"].children) = 1
  /\ dom["div1"].children[1].src = "https://www.example.com/360p"

====
